---- MODULE Spec2Model ----
(***************************************************************************)
(* Model of plugins/modules/uci.py: the OpenWRT UCI Ansible module.        *)
(* One invocation of main() is a run: create_context, the match on         *)
(* ctx.state, has_changed, do_commit, exit_json.  UciContext.commands is a *)
(* class attribute that no instance ever rebinds, so it lives as long as   *)
(* the process and is shared by the runs of one process.                   *)
(***************************************************************************)
EXTENDS Integers, Sequences, FiniteSets, TLC

\* Number of invocations of main() in one process.
MaxRuns == 2

\* Number of change-lines the pending ledger of the store can hold.
MaxPending == 2

PRESENT == "present"
ABSENT == "absent"

\* Python None for an absent str / dict / int parameter.
None == "None"
NoPosition == -1

\* module.get_bin_path("uci", required=True) when the binary is found.
UciPath == "/usr/bin/uci"

\* Line separator of captured output, as out.splitlines() sees it.
NL == "\n"

\* A Value is a scalar string or an ordered list of strings.
Scalar(s) == [isList |-> FALSE, items |-> <<s>>]
List(l) == [isList |-> TRUE, items |-> l]
Opt(n, v) == [name |-> n, value |-> v]

----------------------------------------------------------------------------
\* The external store (the uci binary), as the module sees it.

Radio0(opts) == [name |-> "radio0", type |-> "wifi-device", options |-> opts]

SectionsChoices ==
    { <<>>,
      << Radio0(<< Opt("channel", Scalar("6")) >>) >>,
      << Radio0(<< Opt("channel", Scalar("11")), Opt("servers", List(<<"y", "x">>)) >>) >> }

PendingChoices == { <<>>, << "wireless.radio0.channel='6'" >> }

StoreChoices == [sections : SectionsChoices, pending : PendingChoices]

\* Text printed by `uci changes <config>`: one change-line per line.
ChangesOutput(pending) ==
    [i \in 1..(2 * Len(pending)) |-> IF i % 2 = 1 THEN pending[(i + 1) \div 2] ELSE NL]

\* Effect and standard output of one successful uci invocation.
UciExec(st, command_array) ==
    LET verb == command_array[2] IN
    CASE verb = "changes" -> [store |-> st, out |-> ChangesOutput(st.pending)]
      [] verb = "show"    -> [store |-> st, out |-> <<>>]
      [] verb = "commit"  -> [store |-> [st EXCEPT !.pending = <<>>], out |-> <<>>]
      [] OTHER            -> [store |-> st, out |-> <<>>]

\* Invocations that mutate the store.
Mutating == {"add", "set", "add_list", "del_list", "delete", "reorder", "commit"}

----------------------------------------------------------------------------
\* Pure helpers of the module.

\* str.splitlines() on captured output.
SplitLines(out) == SelectSeq(out, LAMBDA x : x # NL)

\* " ".join(command_array)
RECURSIVE Join(_)
Join(arr) ==
    IF Len(arr) = 0 THEN ""
    ELSE IF Len(arr) = 1 THEN arr[1]
    ELSE arr[1] \o " " \o Join(Tail(arr))

\* AnsibleModule argument_spec: the values module.params can take.
OptionsChoices ==
    { <<>>,
      << Opt("channel", Scalar("11")) >>,
      << Opt("servers", List(<<"x", "y", "z">>)) >> }

\* The ways a desired spec names its section: by name, by type, by type and
\* position, by find criteria (seeding them with set_find), or not at all.
LocatorChoices ==
    { [section |-> "radio0", type |-> None, position |-> NoPosition,
       find |-> <<>>, set_find |-> FALSE],
      [section |-> None, type |-> "interface", position |-> NoPosition,
       find |-> <<>>, set_find |-> FALSE],
      [section |-> None, type |-> "wifi-device", position |-> 0,
       find |-> <<>>, set_find |-> FALSE],
      [section |-> None, type |-> "interface", position |-> NoPosition,
       find |-> << Opt("channel", Scalar("6")) >>, set_find |-> TRUE],
      [section |-> None, type |-> None, position |-> NoPosition,
       find |-> <<>>, set_find |-> FALSE] }

ParamsSet ==
    { [ state |-> s, config |-> "wireless", section |-> l.section, type |-> l.type,
        options |-> o, position |-> l.position, replace |-> r, find |-> l.find,
        set_find |-> l.set_find, commit |-> c ] :
        s \in {PRESENT, ABSENT}, l \in LocatorChoices, o \in OptionsChoices,
        r \in BOOLEAN, c \in BOOLEAN }

NoParams ==
    [ state |-> PRESENT, config |-> "wireless", section |-> None, type |-> None,
      options |-> <<>>, position |-> NoPosition, replace |-> FALSE, find |-> <<>>,
      set_find |-> FALSE, commit |-> FALSE ]

\* Payloads handed to the caller.
NoResult ==
    [ kind |-> "none", changed |-> FALSE, changes_before |-> <<>>, changes_after |-> <<>>,
      uci_commands |-> <<>>, cmd |-> <<>>, rc |-> 0, stderr |-> "" ]

\* module.exit_json(changed=..., changes_before=..., changes_after=..., uci_commands=...)
ExitJson(ch, before, after, cmds) ==
    [ kind |-> "exit", changed |-> ch, changes_before |-> before, changes_after |-> after,
      uci_commands |-> cmds, cmd |-> <<>>, rc |-> 0, stderr |-> "" ]

\* fail_json raised by module.run_command(..., check_rc=True) on a nonzero status.
FailJson(command_array, status) ==
    [ kind |-> "fail", changed |-> FALSE, changes_before |-> <<>>, changes_after |-> <<>>,
      uci_commands |-> <<>>, cmd |-> command_array, rc |-> status, stderr |-> "uci: error" ]

\* fail_json raised by module.get_bin_path("uci", required=True).
ToolNotFound ==
    [ kind |-> "fail", changed |-> FALSE, changes_before |-> <<>>, changes_after |-> <<>>,
      uci_commands |-> <<>>, cmd |-> <<>>, rc |-> 0, stderr |-> "" ]

ChangedByLedger(cmds, before, after) == Len(after) > Len(before)

\* has_changed's return value.
ChangedSignal(cmds, before, after) == Len(cmds) > 0

----------------------------------------------------------------------------
VARIABLES
    pc,              \* position of main()
    runs,            \* invocations of main() started in this process
    params,          \* module.params
    check_mode,      \* module.check_mode
    uciInstalled,    \* whether get_bin_path finds the binary
    store,           \* the external store
    commands,        \* UciContext.commands (class attribute)
    changes_before,  \* ctx.changes_before
    changes_after,   \* ctx.changes_after
    changed,         \* local of main()
    calls,           \* module.run_command invocations of the current run
    issued,          \* commands passed through run_command(ctx, ...) in the current run
    result,          \* exit_json / fail_json payload of the current run
    rcs,             \* statuses returned by the invocations in calls
    start,           \* the store and UciContext.commands when the current run began
    prev             \* the previous run of a pair of runs: its inputs and its payload

vars == << pc, runs, params, check_mode, uciInstalled, store, commands,
           changes_before, changes_after, changed, calls, issued, result,
           rcs, start, prev >>

NoStart == [store |-> [sections |-> <<>>, pending |-> <<>>], commands |-> <<>>]

NoPrev ==
    [ valid |-> FALSE, params |-> NoParams, check_mode |-> FALSE, start |-> NoStart,
      result |-> NoResult ]

Init ==
    /\ pc = "idle"
    /\ runs = 0
    /\ params = NoParams
    /\ check_mode = FALSE
    /\ uciInstalled = TRUE
    /\ store \in StoreChoices
    /\ commands = <<>>
    /\ changes_before = <<>>
    /\ changes_after = <<>>
    /\ changed = FALSE
    /\ calls = <<>>
    /\ issued = <<>>
    /\ result = NoResult
    /\ rcs = <<>>
    /\ start = NoStart
    /\ prev = NoPrev

\* ctx.ucibin
ucibin == UciPath

ModuleRunCommandNoCheck(command_array, rc, next) ==
    /\ calls' = Append(calls, command_array)
    /\ rcs' = Append(rcs, rc)
    /\ store' = IF rc = 0 THEN UciExec(store, command_array).store ELSE store
    /\ pc' = next
    /\ result' = result

\* module.run_command(command_array, check_rc=True) returning status rc.
ModuleRunCommand(command_array, rc, next) ==
    /\ calls' = Append(calls, command_array)
    /\ rcs' = Append(rcs, rc)
    /\ IF rc = 0
       THEN /\ store' = UciExec(store, command_array).store
            /\ pc' = next
            /\ result' = result
       ELSE /\ store' = store
            /\ pc' = "failed"
            /\ result' = FailJson(command_array, rc)

RunCommandAlwaysExec(args, rc, next) ==
    LET command_array == <<ucibin>> \o args IN
    /\ commands' = Append(commands, Join(command_array))
    /\ issued' = Append(issued, Join(command_array))
    /\ ModuleRunCommand(command_array, rc, next)

\* run_command(ctx, *args)
RunCommand(args, rc, next) ==
    LET command_array == <<ucibin>> \o args IN
    /\ commands' = Append(commands, Join(command_array))
    /\ issued' = Append(issued, Join(command_array))
    /\ IF ~check_mode
       THEN ModuleRunCommand(command_array, rc, next)
       ELSE /\ calls' = calls
            /\ rcs' = rcs
            /\ store' = store
            /\ pc' = next
            /\ result' = result

BinOptional(found) == FALSE

\* module.get_bin_path("uci", required=True) fails when the binary is not found.
BinRequired(found) == ~found

\* create_context() on parameters taken from P: AnsibleModule(...) then
\* UciContext.__init__
CreateContextFrom(P) ==
    /\ pc = "idle"
    /\ runs < MaxRuns
    /\ runs' = runs + 1
    /\ start' = [store |-> store, commands |-> commands]
    /\ prev' = prev
    /\ \E p \in P, cm \in BOOLEAN, found \in BOOLEAN, rc \in {0, 1} :
         LET changes_before_cmd == <<UciPath, "changes", p.config>> IN
         /\ params' = p
         /\ check_mode' = cm
         /\ uciInstalled' = found
         /\ changes_after' = <<>>
         /\ changed' = FALSE
         /\ issued' = <<>>
         /\ commands' = commands
         /\ IF BinRequired(found)
            THEN /\ pc' = "failed"
                 /\ result' = ToolNotFound
                 /\ calls' = <<>>
                 /\ rcs' = <<>>
                 /\ store' = store
                 /\ changes_before' = <<>>
            ELSE /\ calls' = <<changes_before_cmd>>
                 /\ rcs' = <<rc>>
                 /\ store' = store
                 /\ IF rc = 0
                    THEN /\ pc' = "match"
                         /\ result' = NoResult
                         /\ changes_before' =
                              SplitLines(UciExec(store, changes_before_cmd).out)
                    ELSE /\ pc' = "failed"
                         /\ result' = FailJson(changes_before_cmd, rc)
                         /\ changes_before' = <<>>

\* create_context()
CreateContext == CreateContextFrom(ParamsSet)

\* main(): match ctx.state
MatchState ==
    /\ pc = "match"
    /\ \E rc \in {0, 1} :
         IF params.state = PRESENT
         THEN RunCommand(<<"show", params.config>>, rc, "has_changed")
         ELSE RunCommand(<<"changes", params.config>>, rc, "has_changed")
    /\ UNCHANGED << runs, params, check_mode, uciInstalled, changes_before,
                    changes_after, changed, start, prev >>

HasChangedNoObserve ==
    /\ pc = "has_changed"
    /\ pc' = "do_commit"
    /\ changed' = ChangedSignal(commands, changes_before, changes_after)
    /\ UNCHANGED << runs, params, check_mode, uciInstalled, store, commands,
                    changes_before, changes_after, calls, issued, result,
                    rcs, start, prev >>

\* ctx.has_changed()
HasChanged ==
    /\ pc = "has_changed"
    /\ \E rc \in {0, 1} :
         LET changes_after_cmd == <<ucibin, "changes", params.config>> IN
         /\ ModuleRunCommand(changes_after_cmd, rc, "do_commit")
         /\ IF rc = 0
            THEN /\ changes_after' = SplitLines(UciExec(store, changes_after_cmd).out)
                 /\ changed' = ChangedSignal(commands, changes_before, changes_after')
            ELSE UNCHANGED << changes_after, changed >>
    /\ UNCHANGED << runs, params, check_mode, uciInstalled, commands,
                    changes_before, issued, start, prev >>

DoCommitAlways ==
    /\ pc = "do_commit"
    /\ \E rc \in {0, 1} : RunCommand(<<"commit", params.config>>, rc, "exit_json")
    /\ UNCHANGED << runs, params, check_mode, uciInstalled, changes_before,
                    changes_after, changed, start, prev >>

DoCommitUnrecorded ==
    /\ pc = "do_commit"
    /\ IF params.commit
       THEN /\ \E rc \in {0, 1} :
                 ModuleRunCommand(<<ucibin, "commit", params.config>>, rc, "exit_json")
            /\ UNCHANGED << commands, issued >>
       ELSE /\ pc' = "exit_json"
            /\ UNCHANGED << commands, issued, calls, rcs, store, result >>
    /\ UNCHANGED << runs, params, check_mode, uciInstalled, changes_before,
                    changes_after, changed, start, prev >>

\* do_commit(ctx)
DoCommit ==
    /\ pc = "do_commit"
    /\ IF params.commit
       THEN \E rc \in {0, 1} : RunCommand(<<"commit", params.config>>, rc, "exit_json")
       ELSE /\ pc' = "exit_json"
            /\ UNCHANGED << commands, issued, calls, rcs, store, result >>
    /\ UNCHANGED << runs, params, check_mode, uciInstalled, changes_before,
                    changes_after, changed, start, prev >>

\* ctx.module.exit_json(...)
Exit ==
    /\ pc = "exit_json"
    /\ result' = ExitJson(changed, changes_before, changes_after, commands)
    /\ pc' = "done"
    /\ UNCHANGED << runs, params, check_mode, uciInstalled, store, commands,
                    changes_before, changes_after, changed, calls, issued,
                    rcs, start, prev >>

\* main() is over: exit_json / fail_json has left it, and the context and the
\* module of the run are dropped.  UciContext.commands stays with the class.
ReturnTo(p) ==
    /\ pc \in {"done", "failed"}
    /\ prev' = p
    /\ start' = NoStart
    /\ rcs' = <<>>
    /\ pc' = "idle"
    /\ params' = NoParams
    /\ check_mode' = FALSE
    /\ uciInstalled' = TRUE
    /\ changes_before' = <<>>
    /\ changes_after' = <<>>
    /\ changed' = FALSE
    /\ calls' = <<>>
    /\ issued' = <<>>
    /\ result' = NoResult
    /\ UNCHANGED << runs, store, commands >>

Return == ReturnTo(prev)

\* Another actor adds a pending change to the config while a run is between
\* its two observations of the ledger.
ExternalChange ==
    /\ pc \in {"match", "has_changed"}
    /\ Len(store.pending) < MaxPending
    /\ store' = [store EXCEPT !.pending = Append(@, "wireless.radio0.disabled='1'")]
    /\ UNCHANGED << pc, runs, params, check_mode, uciInstalled, commands,
                    changes_before, changes_after, changed, calls, issued, result,
                    rcs, start, prev >>

Next ==
    \/ CreateContext
    \/ ExternalChange
    \/ MatchState
    \/ HasChanged
    \/ DoCommit
    \/ Exit
    \/ Return

Spec == Init /\ [][Next]_vars

----------------------------------------------------------------------------
\* A pair of runs on the same desired spec: the second run repeats the
\* parameters of the first, its commit flag and its check mode apart, in the
\* same process or in a new one.

Snapshot ==
    [ valid |-> TRUE, params |-> params, check_mode |-> check_mode, start |-> start,
      result |-> result ]

PairCreate ==
    /\ runs < 2
    /\ CreateContextFrom(IF prev.valid
                         THEN { [prev.params EXCEPT !.commit = c] : c \in BOOLEAN }
                         ELSE ParamsSet)

PairReturn == ReturnTo(Snapshot)

\* The next invocation runs in a new process: the class body of UciContext is
\* executed again and UciContext.commands is a new empty list.
NewProcess ==
    /\ pc = "idle"
    /\ runs > 0
    /\ commands # <<>>
    /\ commands' = <<>>
    /\ UNCHANGED << pc, runs, params, check_mode, uciInstalled, store,
                    changes_before, changes_after, changed, calls, issued, result,
                    rcs, start, prev >>

NextPair ==
    \/ PairCreate
    \/ MatchState
    \/ HasChanged
    \/ DoCommit
    \/ Exit
    \/ PairReturn
    \/ NewProcess

SpecPair == Init /\ [][NextPair]_vars

----------------------------------------------------------------------------
\* Vocabulary of the properties.

Range(seq) == { seq[i] : i \in DOMAIN seq }

ChangesArr == <<UciPath, "changes", params.config>>
CommitArr == <<UciPath, "commit", params.config>>
CommitCmd == Join(CommitArr)

\* The sequenced operations of a command list, the commit apart.
Operations(cmds) == SelectSeq(cmds, LAMBDA c : c # CommitCmd)

Verbs(cs) == [i \in DOMAIN cs |-> cs[i][2]]

SectionNamed(st, n) == { i \in DOMAIN st.sections : st.sections[i].name = n }
SectionsOfType(st, t) == { i \in DOMAIN st.sections : st.sections[i].type = t }
OptionNames(opts) == { opts[i].name : i \in DOMAIN opts }
HasValue(sec, o) == \E i \in DOMAIN sec.options : sec.options[i] = o
AllScalar(opts) == \A k \in DOMAIN opts : ~opts[k].value.isList

\* The run addresses a section by name, and the section exists.
NamedFound == params.section # None /\ SectionNamed(store, params.section) # {}
NamedSection == store.sections[CHOOSE i \in SectionNamed(store, params.section) : TRUE]

SetCmd(id, o) ==
    Join(<<UciPath, "set",
           params.config \o "." \o id \o "." \o o.name \o "=" \o o.value.items[1]>>)
DeleteSectionCmd == Join(<<UciPath, "delete", params.config \o "." \o params.section>>)

\* The last Len(issued) entries of the class-level command list.
Recorded ==
    IF Len(issued) <= Len(commands)
    THEN SubSeq(commands, Len(commands) - Len(issued) + 1, Len(commands))
    ELSE <<>>

----------------------------------------------------------------------------
\* C1: a present run against a store that already holds every desired value
\* sequences zero operations and returns changed=false.
C1_Idempotence ==
    ( /\ pc = "done"
      /\ params.state = PRESENT
      /\ ~params.replace
      /\ params.options # <<>>
      /\ NamedFound
      /\ \A k \in DOMAIN params.options : HasValue(NamedSection, params.options[k]) )
    => ( Operations(issued) = <<>> /\ result.changed = FALSE )

\* C2: after a present run that ends successfully in apply mode, the named
\* section exists and holds the desired value of every option of `options`,
\* a list value entry for entry in the desired order.
C2_Convergence ==
    ( /\ pc = "done"
      /\ ~check_mode
      /\ params.state = PRESENT
      /\ params.section # None )
    => \A k \in DOMAIN params.options :
         NamedFound /\ HasValue(NamedSection, params.options[k])

\* C3: in check mode no mutating invocation is ever executed against the
\* store, and the command list still holds, in order, every command the run
\* passed to run_command; exit_json returns that list.
C3_DryRunPurity ==
    check_mode =>
      ( /\ \A i \in DOMAIN calls : calls[i][2] \notin Mutating
        /\ Len(issued) <= Len(commands)
        /\ Recorded = issued
        /\ pc = "done" => result.uci_commands = commands )

C3_Witness ==
    /\ pc = "done"
    /\ check_mode
    /\ params.commit
    /\ issued = << Join(<<UciPath, "show", params.config>>), CommitCmd >>
    /\ calls = << ChangesArr, ChangesArr >>
    /\ result.uci_commands = issued

\* C4: creating a section of a type the config does not hold executes
\* changes, add <config> <type>, one set per option, changes and, when
\* commit=true, commit, in this order, and returns changed=true.
C4_Creation ==
    ( /\ pc = "done"
      /\ ~check_mode
      /\ params.state = PRESENT
      /\ params.section = None
      /\ params.type # None
      /\ params.position = NoPosition
      /\ params.find = <<>>
      /\ SectionsOfType(store, params.type) = {} )
    => ( /\ Verbs(calls) =
              <<"changes", "add">> \o [k \in DOMAIN params.options |-> "set"]
                \o <<"changes">> \o (IF params.commit THEN <<"commit">> ELSE <<>>)
         /\ calls[2] = <<UciPath, "add", params.config, params.type>>
         /\ result.changed = TRUE )

\* C5: an absent run on an existing named section sequences exactly one
\* `delete <config>.<section>` and no other operation, and returns
\* changed=true.
C5_Deletion ==
    ( /\ pc = "done"
      /\ params.state = ABSENT
      /\ NamedFound )
    => ( /\ Operations(issued) = << DeleteSectionCmd >>
         /\ result.changed = TRUE )

\* C6: a present run on an existing named section sequences exactly one
\* `set <config>.<section>.<option>=<value>` per scalar option whose current
\* value is absent or differs, and returns changed=true when there is one.
C6_UpdateInPlace ==
    ( /\ pc = "done"
      /\ params.state = PRESENT
      /\ ~params.replace
      /\ AllScalar(params.options)
      /\ NamedFound )
    => LET differing == SelectSeq(params.options, LAMBDA o : ~HasValue(NamedSection, o)) IN
       /\ Operations(issued) =
            [k \in DOMAIN differing |-> SetCmd(params.section, differing[k])]
       /\ (Len(differing) > 0) => result.changed = TRUE

\* C7: after a present run with replace=true that ends successfully in apply
\* mode, the option names of the target section are exactly the keys of
\* `options`, with the keys of `find` when set_find is true.
C7_ReplaceCompleteness ==
    ( /\ pc = "done"
      /\ ~check_mode
      /\ params.state = PRESENT
      /\ params.replace
      /\ NamedFound )
    => OptionNames(NamedSection.options) =
         OptionNames(params.options)
           \cup (IF params.set_find THEN OptionNames(params.find) ELSE {})

\* C8: a run that reaches exit_json has sequenced `commit <config>` if and
\* only if commit=true (and in apply mode executed it if and only if
\* commit=true), whatever the value of changed.
C8_CommitFollowsFlag ==
    pc \in {"exit_json", "done"} =>
      ( /\ (CommitCmd \in Range(issued)) <=> params.commit
        /\ ~check_mode => ((CommitArr \in Range(calls)) <=> params.commit) )

C8_Witness ==
    /\ pc = "done"
    /\ params.commit
    /\ ~check_mode
    /\ issued[Len(issued)] = CommitCmd
    /\ calls[Len(calls)] = CommitArr
    /\ store.pending = <<>>

\* C9: the changed value computed by has_changed and returned by exit_json
\* equals (number of commands the run sequenced > 0), whatever the two
\* observations of the ledger hold.
C9_ChangedSignal ==
    /\ pc \in {"do_commit", "exit_json", "done"} => (changed = (Len(issued) > 0))
    /\ pc = "done" => result.changed = changed

C9_Witness ==
    /\ pc = "done"
    /\ result.changed = TRUE
    /\ Len(issued) > 0
    /\ Len(result.changes_before) > 0
    /\ Len(result.changes_after) = Len(result.changes_before)

\* C10: an absent run whose named section does not exist records no
\* operation other than an optional commit and returns changed=false.
C10_AbsentNotFoundNoOp ==
    ( /\ pc = "done"
      /\ params.state = ABSENT
      /\ params.section # None
      /\ SectionNamed(store, params.section) = {} )
    => ( /\ Operations(result.uci_commands) = <<>>
         /\ result.changed = FALSE )

\* C11: a desired spec with no section name, no type, no position and no find
\* ends in a failure, and no store invocation at all is issued in that run.
C11_ValidationBeforeInteraction ==
    ( /\ pc # "idle"
      /\ params.section = None
      /\ params.type = None
      /\ params.position = NoPosition
      /\ params.find = <<>> )
    => ( /\ pc = "failed"
         /\ result.kind = "fail"
         /\ calls = <<>> )

\* C12: the command list an invocation returns holds exactly the commands that
\* invocation sequenced, whatever earlier invocations of the process recorded.
C12_NoCrossInvocationLeakage ==
    pc = "done" => result.uci_commands = issued

\* C13: when a store invocation returns a nonzero status, the failure payload
\* holds the commands sequenced so far in that run and the captured
\* standard-error text.
C13_FailureReport ==
    (pc = "failed" /\ result.rc # 0)
    => ( /\ result.kind = "fail"
         /\ result.stderr = "uci: error"
         /\ result.uci_commands = issued )

\* C14: in apply mode, a store invocation that returned a nonzero status is
\* the last invocation of its run (the two observations included), and the
\* run has ended in failure with that invocation in its payload.
C14_FailFast ==
    ~check_mode =>
      \A i \in DOMAIN rcs :
        rcs[i] # 0 =>
          ( /\ i = Len(rcs)
            /\ Len(calls) = Len(rcs)
            /\ pc = "failed"
            /\ result.kind = "fail"
            /\ result.cmd = calls[i] )

C14_Witness ==
    /\ pc = "failed"
    /\ ~check_mode
    /\ params.commit
    /\ rcs = <<0, 1>>
    /\ calls = << ChangesArr, <<UciPath, "show", params.config>> >>
    /\ issued = << Join(<<UciPath, "show", params.config>>) >>

\* C15: in a run that completes, the before-observation `changes <config>` is
\* the first store invocation, the sequenced operations follow it in order
\* and precede the after-observation `changes <config>`, and the commit, if
\* any, comes after the after-observation and is the last store invocation.
C15_PhaseOrdering ==
    pc = "done" =>
      LET executed == params.commit /\ ~check_mode
          n == Len(calls) - (IF executed THEN 1 ELSE 0)
          k == Len(issued) - (IF params.commit THEN 1 ELSE 0)
      IN  /\ n >= 2
          /\ calls[1] = ChangesArr
          /\ calls[n] = ChangesArr
          /\ n - 2 = (IF check_mode THEN 0 ELSE k)
          /\ ~check_mode => \A i \in 1..k : Join(calls[i + 1]) = issued[i]
          /\ executed => calls[Len(calls)] = CommitArr
          /\ \A i \in 1..n : calls[i] # CommitArr

C15_Witness ==
    /\ pc = "done"
    /\ ~check_mode
    /\ params.commit
    /\ calls = << ChangesArr, <<UciPath, "show", params.config>>, ChangesArr, CommitArr >>

\* C17: when get_bin_path does not find the uci binary the run fails at once:
\* no store invocation is issued and no command is recorded in that run.
C17_ToolNotFound ==
    ~uciInstalled =>
      ( /\ pc = "failed"
        /\ result.kind = "fail"
        /\ calls = <<>>
        /\ issued = <<>>
        /\ commands = start.commands )

C17_Witness ==
    /\ ~uciInstalled
    /\ pc = "failed"
    /\ result = ToolNotFound
    /\ calls = <<>>
    /\ params.commit

\* The current run and the previous one both returned a result, on the same
\* desired spec (the commit flag apart) and the same store.
PairDone ==
    /\ pc = "done"
    /\ prev.valid
    /\ prev.result.kind = "exit"
    /\ [prev.params EXCEPT !.commit = params.commit] = params
    /\ prev.start.store = start.store

\* C16: a dry-run invocation and an apply-mode invocation on the same desired
\* spec and the same store return the same ordered command list and the same
\* changed value.
C16_DryRunEquivalence ==
    ( /\ PairDone
      /\ prev.params = params
      /\ prev.check_mode # check_mode )
    => ( /\ result.uci_commands = prev.result.uci_commands
         /\ result.changed = prev.result.changed )

\* C18: two runs, each the first of its process, that differ only in the
\* commit flag return the same changed value; and the first run of a process
\* with commit=true returns a command list whose last entry is the commit.
C18_CommitNotInChanged ==
    /\ ( /\ PairDone
         /\ prev.params.commit # params.commit
         /\ prev.check_mode = check_mode
         /\ prev.start.commands = <<>>
         /\ start.commands = <<>> )
       => result.changed = prev.result.changed
    /\ ( /\ pc = "done"
         /\ start.commands = <<>>
         /\ params.commit )
       => ( /\ result.uci_commands # <<>>
            /\ result.uci_commands[Len(result.uci_commands)] = CommitCmd )

C18_Witness ==
    /\ PairDone
    /\ ~prev.params.commit
    /\ params.commit
    /\ prev.check_mode = check_mode
    /\ prev.start.commands = <<>>
    /\ start.commands = <<>>
    /\ result.changed = prev.result.changed
    /\ result.uci_commands = Append(prev.result.uci_commands, CommitCmd)

====
